---- MODULE Spec2Model ----
(***************************************************************************)
(* Model of rename_pdfs_title_year.py: the preview planner                 *)
(* (compute_preview), the apply engine (apply_changes) and the name        *)
(* builder they share.                                                     *)
(*                                                                         *)
(* Strings are sequences of one-character strings.  An absent (None)       *)
(* string is the empty sequence, an absent year is 0 and an absent DOI is  *)
(* "": the code tests all three by truthiness only (`if not title`,        *)
(* `if cf_year`, `if doi`), so None and the falsy value behave alike.      *)
(* An absent path is NoPath.                                               *)
(***************************************************************************)
EXTENDS Integers, Sequences, FiniteSets, TLC

(***************************************************************************)
(* Bounds of the model.                                                    *)
(***************************************************************************)
MaxFiles == 2        \* PDFs in the scanned folder
MaxRuns == 2         \* planning passes in one behaviour
MaxYear == 2027      \* the wall clock stops advancing at this year

(***************************************************************************)
(* Characters and strings.                                                 *)
(***************************************************************************)
\* Characters in code-point order; used to sort paths as sorted() does.
CharOrder ==
    <<"\t", " ", "(", ")", "-", ".", "0", "1", "2", "3", "4", "5", "6", "7",
      "8", "9", ":", "B", "O", "T", "_", "a", "b", "c", "d", "e", "f", "h",
      "i", "l", "m", "n", "o", "p", "r", "s", "t", "u">>

Ord(c) == CHOOSE i \in 1..Len(CharOrder) : CharOrder[i] = c

\* Python's s1 < s2 on strings.
RECURSIVE StrLess(_, _)
StrLess(s, t) ==
    IF t = <<>> THEN FALSE
    ELSE IF s = <<>> THEN TRUE
    ELSE IF Head(s) = Head(t) THEN StrLess(Tail(s), Tail(t))
    ELSE Ord(Head(s)) < Ord(Head(t))

Whitespace == {" ", "\t"}

\* INVALID_CHARS (line 22); NUL is written "NUL".
INVALID_CHARS == {"<", ">", ":", "\"", "/", "\\", "|", "?", "*"}

\* str.lstrip() / str.rstrip() / str.strip() with no argument.
RECURSIVE LStrip(_)
LStrip(s) ==
    IF s # <<>> /\ Head(s) \in Whitespace THEN LStrip(Tail(s)) ELSE s

RECURSIVE RStripChars(_, _)
RStripChars(s, chars) ==
    IF s # <<>> /\ s[Len(s)] \in chars
    THEN RStripChars(SubSeq(s, 1, Len(s) - 1), chars)
    ELSE s

RStrip(s) == RStripChars(s, Whitespace)

Strip(s) == RStrip(LStrip(s))

\* re.sub(r"\s+", " ", s): every run of whitespace becomes one space.
RECURSIVE CollapseWs(_)
CollapseWs(s) ==
    IF s = <<>> THEN <<>>
    ELSE IF Head(s) \in Whitespace
         THEN <<" ">> \o CollapseWs(LStrip(s))
         ELSE <<Head(s)>> \o CollapseWs(Tail(s))

\* str.translate with the INVALID_CHARS table.
Translate(s) ==
    [i \in 1..Len(s) |-> IF s[i] \in INVALID_CHARS THEN "_" ELSE s[i]]

\* str.replace("\u0000", "").
RECURSIVE DropNul(_)
DropNul(s) ==
    IF s = <<>> THEN <<>>
    ELSE IF Head(s) = "NUL" THEN DropNul(Tail(s))
    ELSE <<Head(s)>> \o DropNul(Tail(s))

Untitled == <<"u", "n", "t", "i", "t", "l", "e", "d">>

sanitize_filename(name) ==
    LET n1 == Strip(CollapseWs(name))
        n2 == Translate(n1)
        n3 == Strip(RStripChars(n2, {".", " "}))
        n4 == Strip(DropNul(n3))
    IN  IF n4 = <<>> THEN Untitled ELSE n4

Max(a, b) == IF a >= b THEN a ELSE b

\* The budget of the stem taken to be the whole of max_len.
clamp_filename_WholeBudget(stem, suffix, max_len) ==
    LET max_stem_len == Max(1, max_len)
        s == Strip(stem)
    IN  IF Len(s) > max_stem_len
        THEN RStrip(SubSeq(s, 1, max_stem_len)) \o suffix
        ELSE s \o suffix

clamp_filename(stem, suffix, max_len) ==
    LET max_stem_len == Max(1, max_len - Len(suffix))
        s == Strip(stem)
    IN  IF Len(s) > max_stem_len
        THEN RStrip(SubSeq(s, 1, max_stem_len)) \o suffix
        ELSE s \o suffix

\* str(n) for a natural number n.
Digit(d) == <<"0", "1", "2", "3", "4", "5", "6", "7", "8", "9">>[d + 1]

RECURSIVE IntToStr(_)
IntToStr(n) ==
    IF n < 10 THEN <<Digit(n)>> ELSE IntToStr(n \div 10) \o <<Digit(n % 10)>>

\* The two styles taken one for the other.
build_new_stem_Swapped(title, year, style) ==
    LET t == sanitize_filename(title)
    IN  IF year # 0
        THEN IF style = "suffix"
             THEN IntToStr(year) \o <<" ", "-", " ">> \o t
             ELSE t \o <<" ", "(">> \o IntToStr(year) \o <<")">>
        ELSE t

build_new_stem(title, year, style) ==
    LET t == sanitize_filename(title)
    IN  IF year # 0
        THEN IF style = "prefix"
             THEN IntToStr(year) \o <<" ", "-", " ">> \o t
             ELSE t \o <<" ", "(">> \o IntToStr(year) \o <<")">>
        ELSE t

(***************************************************************************)
(* Paths: a directory is a sequence of components, a file path a record.   *)
(***************************************************************************)
NoPath == [dir |-> <<>>, name |-> <<>>]

MkPath(d, n) == [dir |-> d, name |-> n]

\* Index of the last "." of a name, 0 when there is none.
LastDot(n) ==
    LET dots == {i \in 1..Len(n) : n[i] = "."}
    IN  IF dots = {} THEN 0 ELSE CHOOSE i \in dots : \A j \in dots : j <= i

\* PurePath.suffix and PurePath.stem.
PathSuffix(n) ==
    LET i == LastDot(n)
    IN  IF 1 < i /\ i < Len(n) THEN SubSeq(n, i, Len(n)) ELSE <<>>

PathStem(n) ==
    LET i == LastDot(n)
    IN  IF 1 < i /\ i < Len(n) THEN SubSeq(n, 1, i - 1) ELSE n

\* f"{stem} ({i}){suffix}"
Numbered(n, i) ==
    PathStem(n) \o <<" ", "(">> \o IntToStr(i) \o <<")">> \o PathSuffix(n)

\* The while loop of unique_path_with_reserved and of unique_path.
RECURSIVE FirstFree(_, _, _)
FirstFree(n, taken, i) ==
    IF Numbered(n, i) \notin taken THEN Numbered(n, i)
    ELSE FirstFree(n, taken, i + 1)

\* A probe that tries " (2)" only and never looks at the later names.
UniqueNameResult_NoProbe(n, reserved) ==
    IF n \notin reserved THEN n ELSE Numbered(n, 2)

\* unique_path_with_reserved: the name chosen; the caller adds it to reserved.
UniqueNameResult(n, reserved) ==
    IF n \notin reserved THEN n ELSE FirstFree(n, reserved, 2)

unique_path_with_reserved(path, reserved) ==
    MkPath(path.dir, UniqueNameResult(path.name, reserved))

(***************************************************************************)
(* The world the program runs in.                                          *)
(***************************************************************************)
\* folder: the scan root; folder / unmatched_dir.
Folder == <<"root">>

UnmatchedName == "_unmatched"

\* A subfolder of the scan root, seen only by a recursive scan.
Sub == Append(Folder, "sub")

Dirs == {Folder, Append(Folder, UnmatchedName), Sub}

PdfExt == <<".", "p", "d", "f">>

NameA == <<"a">> \o PdfExt

NameT == <<"O", "n", " ", "T", "r", "e", "e", "s">> \o PdfExt

NameT2 == <<"O", "n", " ", "T", "r", "e", "e", "s", " ", "(", "2", ")">> \o PdfExt

InitNames == {NameA, NameT, NameT2}

\* What extract_title_from_metadata can return: None or a title of 8+ chars.
TitleMeta == <<"O", "n", " ", "T", "r", "e", "e", "s">>

\* A title the registry can return.
TitleCf == <<"O", "n", ":", " ", "B", "e", "e", "s">>

DOIs == {"10.1000/x", "10.1000/y"}

\* The wall-clock year at the start of a behaviour.
InitYear == 2026

\* What the PDF reading collaborator yields for a file: the metadata title
\* accepted by extract_title_from_metadata, the DOI extract_doi_from_text
\* finds and the 19xx/20xx tokens YEAR_RE finds in the text, in text order.
Contents ==
    { [title |-> TitleMeta, doi |-> "", years |-> <<>>],
      [title |-> TitleMeta, doi |-> "10.1000/x", years |-> <<2019, 2028>>],
      [title |-> <<>>, doi |-> "10.1000/x", years |-> <<2019, 2028>>],
      [title |-> <<>>, doi |-> "10.1000/y", years |-> <<>>] }

FileRec(d, n, c) ==
    [dir |-> d, name |-> n, title |-> c.title, doi |-> c.doi, years |-> c.years]

PathOf(f) == MkPath(f.dir, f.name)

\* crossref_lookup's outcomes: an exception, or (title, year) with either absent.
LookupAnswers ==
    { [raises |-> TRUE, title |-> <<>>, year |-> 0],
      [raises |-> FALSE, title |-> <<>>, year |-> 0],
      [raises |-> FALSE, title |-> TitleCf, year |-> 2021],
      [raises |-> FALSE, title |-> <<>>, year |-> 1700] }

NoAnswer == [raises |-> FALSE, title |-> <<>>, year |-> 0]

Unknown == [raises |-> FALSE, title |-> <<"?">>, year |-> 0]

Styles == {"prefix", "suffix"}

VARIABLES
    fs,              \* the files on disk: records dir, name, title, doi, years
    dirs,            \* the directories that exist
    unlistable,      \* directories whose iterdir() raises
    clock,           \* datetime.now().year
    registry,        \* what the registry answers for a DOI, once asked
    opts,            \* style, no_crossref, unmatched_dir, maxlen
    pc,              \* idle, preview, previewed, apply, applied
    pdfs,            \* compute_preview's pdfs argument
    idx,             \* compute_preview's loop index
    cache,           \* compute_preview's cache dict
    reserved_by_dir, \* compute_preview's reserved_by_dir dict
    items,           \* compute_preview's items list
    cancel_event,    \* the threading.Event shared with the caller
    cancelSeen,      \* the loop left through `break`
    events,          \* callbacks, extractions, lookups and sleeps of this run
    startClock,      \* the clock when this planning pass started
    runs,            \* planning passes started
    last,            \* the latest planning pass that returned uncancelled
    prev,            \* the one before it
    aitems,          \* apply_changes' items argument
    dry_run,         \* apply_changes' dry_run argument
    aidx,            \* apply_changes' loop index
    renamed,         \* apply_changes' renamed counter
    skipped,         \* apply_changes' skipped counter
    failed,          \* items whose try block raised, in this apply pass
    notApplied,      \* items skipped at line 318, in this apply pass
    alog,            \* callbacks, log lines and file operations of this apply pass
    applies,         \* apply passes started
    call,            \* a helper called on its own: function, arguments, result
    gui              \* RenamerGUI: queue, worker threads, poller, busy state

pvars == <<pdfs, idx, cache, reserved_by_dir, items, cancelSeen, events, startClock, runs, last, prev>>

avars == <<aitems, dry_run, aidx, renamed, skipped, failed, notApplied, alog, applies>>

envvars == <<unlistable, opts, call, gui>>

vars == <<fs, dirs, clock, registry, pc, cancel_event, pvars, avars, envvars>>

(***************************************************************************)
(* Heuristic parser.                                                       *)
(***************************************************************************)
SeqMax(s) == CHOOSE y \in {s[i] : i \in 1..Len(s)} : \A j \in 1..Len(s) : s[j] <= y

\* YEAR_RE.findall on a text given as its sequence of number words: the
\* words of the form 19dd or 20dd, in order.
YEAR_RE_findall(text) == SelectSeq(text, LAMBDA w : 1900 <= w /\ w <= 2099)

\* The first in-range token instead of the greatest.
extract_year_from_text_First(text, current_year) ==
    LET years == YEAR_RE_findall(text)
        ok == SelectSeq(years, LAMBDA y : 1800 < y /\ y <= current_year + 1)
    IN  IF years = <<>> \/ ok = <<>> THEN 0 ELSE ok[1]

extract_year_from_text(text, current_year) ==
    LET years == YEAR_RE_findall(text)
        ok == SelectSeq(years, LAMBDA y : 1800 < y /\ y <= current_year + 1)
    IN  IF years = <<>> \/ ok = <<>> THEN 0 ELSE SeqMax(ok)

(***************************************************************************)
(* collect_pdfs: sorted(folder.glob("**/*.pdf" if recursive else "*.pdf")).*)
(***************************************************************************)
\* The spelling of a directory component.
Spell(c) ==
    CASE c = "root" -> <<"r", "o", "o", "t">>
      [] c = "sub" -> <<"s", "u", "b">>
      [] c = UnmatchedName -> <<"_", "u", "n", "m", "a", "t", "c", "h", "e", "d">>

\* PurePath's parts: the directory components, then the file name.
Parts(p) == [i \in 1..Len(p.dir) |-> Spell(p.dir[i])] \o <<p.name>>

\* Path ordering: the lists of parts compared as Python compares lists.
RECURSIVE PartsLess(_, _)
PartsLess(a, b) ==
    IF b = <<>> THEN FALSE
    ELSE IF a = <<>> THEN TRUE
    ELSE IF Head(a) = Head(b) THEN PartsLess(Tail(a), Tail(b))
    ELSE StrLess(Head(a), Head(b))

RECURSIVE SortPaths(_)
SortPaths(S) ==
    IF S = {} THEN <<>>
    ELSE LET m == CHOOSE n \in S : \A o \in S \ {n} : PartsLess(Parts(n), Parts(o))
         IN  <<m>> \o SortPaths(S \ {m})

\* d is folder or a directory below it.
Under(folder, d) == Len(folder) <= Len(d) /\ SubSeq(d, 1, Len(folder)) = folder

collect_pdfs(folder, recursive) ==
    SortPaths({PathOf(f) : f \in {g \in fs : IF recursive THEN Under(folder, g.dir)
                                                           ELSE g.dir = folder}})

FileAt(p) == CHOOSE f \in fs : PathOf(f) = p

Exists(p) == \E f \in fs : PathOf(f) = p

(***************************************************************************)
(* compute_preview.                                                        *)
(***************************************************************************)
\* {p.name for p in dir_path.iterdir() if p.is_file()}, {} on any exception.
Listing(d) ==
    IF d \notin dirs \/ d \in unlistable THEN {}
    ELSE {f.name : f \in {g \in fs : g.dir = d}}

\* get_reserved: the dict after the call.
get_reserved(rbd, d) ==
    IF d \in DOMAIN rbd THEN rbd
    ELSE [x \in DOMAIN rbd \cup {d} |-> IF x = d THEN Listing(d) ELSE rbd[x]]

\* reserved.add(name) on the set of directory d.
Reserve(rbd, d, n) == [rbd EXCEPT ![d] = @ \cup {n}]

unmatched_root == IF opts.unmatched_dir = "" THEN <<>> ELSE Append(Folder, opts.unmatched_dir)

PreviewItem(pdf, new_path, doi, title, year, status, reason, apply) ==
    [pdf |-> pdf, old_name |-> pdf.name, new_path |-> new_path, doi |-> doi,
     title |-> title, year |-> year, status |-> status, reason |-> reason,
     apply |-> apply]

\* Lines 210-227: the title and year after the optional lookup.
ResolvedTitle(title, cf) == IF cf.title # <<>> THEN cf.title ELSE title

\* The text guess preferred to the registry's year.
ResolvedYear_GuessFirst(year_guess, cf) ==
    IF year_guess # 0 THEN year_guess
    ELSE IF cf.year # 0 THEN cf.year ELSE 0

ResolvedYear(year_guess, cf) ==
    IF cf.year # 0 THEN cf.year
    ELSE IF year_guess # 0 THEN year_guess ELSE 0

\* The skip record left slated for execution.
PlanUntitled_SkipSlated(pdf, doi, year, rbd) ==
    IF unmatched_root # <<>>
    THEN LET r1 == get_reserved(rbd, unmatched_root)
             dest == unique_path_with_reserved(MkPath(unmatched_root, pdf.name), r1[unmatched_root])
         IN  [item |-> PreviewItem(pdf, dest, doi, <<>>, year, "move", "no title found", TRUE),
              rbd |-> Reserve(r1, unmatched_root, dest.name)]
    ELSE [item |-> PreviewItem(pdf, NoPath, doi, <<>>, year, "skip", "no title found", TRUE),
          rbd |-> rbd]

\* The unmatched directory made beside each file instead of under the scan root.
PlanUntitled_BesideFile(pdf, doi, year, rbd) ==
    IF unmatched_root # <<>>
    THEN LET beside == Append(pdf.dir, opts.unmatched_dir)
             r1 == get_reserved(rbd, beside)
             dest == unique_path_with_reserved(MkPath(beside, pdf.name), r1[beside])
         IN  [item |-> PreviewItem(pdf, dest, doi, <<>>, year, "move", "no title found", TRUE),
              rbd |-> Reserve(r1, beside, dest.name)]
    ELSE [item |-> PreviewItem(pdf, NoPath, doi, <<>>, year, "skip", "no title found", FALSE),
          rbd |-> rbd]

\* Lines 229-262: no title.
PlanUntitled(pdf, doi, year, rbd) ==
    IF unmatched_root # <<>>
    THEN LET r1 == get_reserved(rbd, unmatched_root)
             dest == unique_path_with_reserved(MkPath(unmatched_root, pdf.name), r1[unmatched_root])
         IN  [item |-> PreviewItem(pdf, dest, doi, <<>>, year, "move", "no title found", TRUE),
              rbd |-> Reserve(r1, unmatched_root, dest.name)]
    ELSE [item |-> PreviewItem(pdf, NoPath, doi, <<>>, year, "skip", "no title found", FALSE),
          rbd |-> rbd]

\* Lines 264-298: a title was resolved.
PlanTitled(pdf, doi, title, year, rbd) ==
    LET new_stem == build_new_stem(title, year, opts.style)
        new_name == clamp_filename(new_stem, PdfExt, opts.maxlen)
        r1 == get_reserved(rbd, pdf.dir)
        new_path == unique_path_with_reserved(MkPath(pdf.dir, new_name), r1[pdf.dir])
        r2 == Reserve(r1, pdf.dir, new_path.name)
    IN  IF new_path.name = pdf.name
        THEN [item |-> PreviewItem(pdf, new_path, doi, title, year, "ok", "already good name", FALSE),
              rbd |-> r2]
        ELSE [item |-> PreviewItem(pdf, new_path, doi, title, year, "rename", "ready", TRUE),
              rbd |-> r2]

Plan(pdf, doi, title, year, rbd) ==
    IF title = <<>> THEN PlanUntitled(pdf, doi, year, rbd)
    ELSE PlanTitled(pdf, doi, title, year, rbd)

Ev(kind, i, d) == [ev |-> kind, idx |-> i, doi |-> d]

\* A cache that is consulted only for DOIs whose lookup found a title.
NeedLookup_RetryEmpty(doi) ==
    doi # "" /\ ~opts.no_crossref /\ (doi \notin DOMAIN cache \/ cache[doi].title = <<>>)

\* Line 211-212: a lookup is due for this DOI.
NeedLookup(doi) == doi # "" /\ ~opts.no_crossref /\ doi \notin DOMAIN cache

\* The answers the registry can give now: the one already given, or any.
AnswersFor(doi) ==
    IF ~NeedLookup(doi) THEN {NoAnswer}
    ELSE IF registry[doi] # Unknown THEN {registry[doi]}
    ELSE LookupAnswers

\* Lines 215-218: the pair stored in the cache for an answer.
CacheEntry(ans) ==
    IF ans.raises THEN [title |-> <<>>, year |-> 0]
    ELSE [title |-> ans.title, year |-> ans.year]

\* Lines 212-219: cf_title, cf_year.
CfFor(doi, ans) ==
    IF doi = "" \/ opts.no_crossref THEN [title |-> <<>>, year |-> 0]
    ELSE IF doi \in DOMAIN cache THEN cache[doi]
    ELSE CacheEntry(ans)

\* time.sleep moved into the try block: an exception of the lookup skips it.
LookupEvents_NoSleepOnFailure(looked, i, doi, ans) ==
    IF ~looked THEN <<>>
    ELSE IF ans.raises THEN <<Ev("lookup", i, doi)>>
    ELSE <<Ev("lookup", i, doi), Ev("sleep", i, doi)>>

\* Lines 214-220: the lookup and the time.sleep that follows the try
\* statement, neither of them on a cache hit.
LookupEvents(looked, i, doi, ans) ==
    IF looked THEN <<Ev("lookup", i, doi), Ev("sleep", i, doi)>> ELSE <<>>

\* No try statement around the lookup: its exception leaves compute_preview.
AfterLookup_Raise(ans) == IF ans.raises THEN "raised" ELSE "preview"

\* Lines 214-217: `except Exception` swallows whatever the lookup raised.
AfterLookup(ans) == "preview"

\* progress_cb(idx, total, pdf) and item_cb(idx, total, item).
CbEv(kind, i, arg) == [ev |-> kind, idx |-> i, doi |-> "", arg |-> arg]

\* progress_cb called only once the file has been read.
FileEvents_ProgressLate(i, pdf, looked, doi, ans, item) ==
    <<Ev("extract", i, ""), CbEv("progress", i, pdf)>>
        \o LookupEvents(looked, i, doi, ans)
        \o <<CbEv("item", i, item)>>

\* One iteration of lines 199-298 as seen from outside: progress_cb, the
\* reading of the file, the lookup if any, item_cb on the appended record.
FileEvents(i, pdf, looked, doi, ans, item) ==
    <<CbEv("progress", i, pdf), Ev("extract", i, "")>>
        \o LookupEvents(looked, i, doi, ans)
        \o <<CbEv("item", i, item)>>

CachePut(c, doi, e) == [x \in DOMAIN c \cup {doi} |-> IF x = doi THEN e ELSE c[x]]

(***************************************************************************)
(* Initial states: a folder of at most MaxFiles PDFs, the options of one   *)
(* invocation, nothing planned yet.                                        *)
(***************************************************************************)
UnmatchedDir == Append(Folder, UnmatchedName)

MaxLens == {140}

Options ==
    [style : Styles, no_crossref : BOOLEAN, unmatched_dir : {"", UnmatchedName},
     maxlen : MaxLens, recursive : {FALSE}]

\* The folders the program may be started on.
Worlds ==
    LET cand == {FileRec(Folder, n, c) : n \in InitNames, c \in Contents}
    IN  {w \in SUBSET cand :
            /\ Cardinality(w) <= MaxFiles
            /\ \A f, g \in w : f.name = g.name => f = g}

\* Files a previous pass may have left in the unmatched directory.
UnmatchedWorlds ==
    {{}, {FileRec(UnmatchedDir, NameA, [title |-> <<>>, doi |-> "", years |-> <<>>])}}

\* No helper is being called on its own.
NoCall == [fn |-> "none", args |-> <<>>, done |-> FALSE, res |-> <<>>]

\* RenamerGUI.__init__: an empty queue, no worker, nothing scheduled.
NoGui == [queue |-> <<>>, threads |-> <<>>, worker |-> FALSE, poll |-> "idle",
          timers |-> 0, busy |-> FALSE, auto |-> FALSE, starts |-> 0]

NoRun == [valid |-> FALSE, items |-> <<>>, pdfs |-> <<>>, fs |-> {}, dirs |-> {},
          clockLo |-> 0, clockHi |-> 0]

Init ==
    /\ \E w \in Worlds, u \in UnmatchedWorlds :
          /\ fs = w \cup u
          /\ dirs = {Folder} \cup {f.dir : f \in u}
          /\ unlistable \in (IF u = {} THEN {{}, {Folder}} ELSE {{}})
    /\ clock = InitYear
    /\ registry = [d \in DOIs |-> Unknown]
    /\ opts \in Options
    /\ pc = "idle"
    /\ pdfs = <<>>
    /\ idx = 1
    /\ cache = <<>>
    /\ reserved_by_dir = <<>>
    /\ items = <<>>
    /\ cancel_event = FALSE
    /\ cancelSeen = FALSE
    /\ events = <<>>
    /\ startClock = InitYear
    /\ runs = 0
    /\ last = NoRun
    /\ prev = NoRun
    /\ aitems = <<>>
    /\ dry_run = FALSE
    /\ aidx = 1
    /\ renamed = 0
    /\ skipped = 0
    /\ failed = 0
    /\ notApplied = 0
    /\ alog = <<>>
    /\ applies = 0
    /\ call = NoCall
    /\ gui = NoGui

(***************************************************************************)
(* The planning pass.                                                      *)
(***************************************************************************)
\* A loop that never looks at the flag.
CancelRequested_Never == FALSE

\* A flag that apply_changes tests at the bottom of its loop: the first item
\* is processed whatever the flag says.
CancelRequested_AfterFirst == cancel_event /\ (pc = "apply" => aidx > 1)

\* Lines 200 and 314: `cancel_event and cancel_event.is_set()`.
CancelRequested == cancel_event

\* A reserved_by_dir that outlives the pass (a module-level dict).
InitialReserved_Kept == reserved_by_dir

\* Line 185: every pass starts with an empty reserved_by_dir.
InitialReserved == <<>>

\* run_cli lines 347-362 / RenamerGUI._preview: list the folder, clear the
\* cancellation flag and enter compute_preview (lines 184-198).
EnterPreview ==
    /\ pc' = "preview"
    /\ runs' = runs + 1
    /\ pdfs' = collect_pdfs(Folder, opts.recursive)
    /\ idx' = 1
    /\ cache' = <<>>
    /\ reserved_by_dir' = InitialReserved
    /\ items' = <<>>
    /\ cancel_event' = FALSE
    /\ cancelSeen' = FALSE
    /\ events' = <<>>
    /\ startClock' = clock
    /\ UNCHANGED <<fs, dirs, clock, registry, last, prev, avars, envvars>>

\* The first planning pass of an invocation.
StartPreview ==
    /\ pc = "idle"
    /\ EnterPreview

\* RenamerGUI._preview pressed again, or scheduled by done_rename (line 573).
Rerun ==
    /\ pc \in {"previewed", "applied"}
    /\ runs < MaxRuns
    /\ EnterPreview

\* One iteration of the loop of lines 199-298 that passes the check of line 200.
PreviewFile ==
    /\ pc = "preview"
    /\ idx <= Len(pdfs)
    /\ ~CancelRequested
    /\ LET pdf == pdfs[idx]
           file == FileAt(pdf)
           doi == file.doi
           year_guess == extract_year_from_text(file.years, clock)
           looked == NeedLookup(doi)
       IN  \E ans \in AnswersFor(doi) :
              LET cf == CfFor(doi, ans)
                  title == ResolvedTitle(file.title, cf)
                  year == ResolvedYear(year_guess, cf)
                  plan == Plan(pdf, doi, title, year, reserved_by_dir)
              IN  /\ registry' = IF looked THEN [registry EXCEPT ![doi] = ans] ELSE registry
                  /\ cache' = IF looked THEN CachePut(cache, doi, cf) ELSE cache
                  /\ reserved_by_dir' = plan.rbd
                  /\ items' = Append(items, plan.item)
                  /\ events' = events \o FileEvents(idx, pdf, looked, doi, ans, plan.item)
                  /\ pc' = IF looked THEN AfterLookup(ans) ELSE pc
    /\ idx' = idx + 1
    /\ UNCHANGED <<fs, dirs, clock, pdfs, cancel_event, cancelSeen, startClock, runs,
                   last, prev, avars, envvars>>

\* Lines 200-201: the flag is set when the loop reaches a file; break, return items.
PreviewCancelled ==
    /\ pc = "preview"
    /\ idx <= Len(pdfs)
    /\ CancelRequested
    /\ pc' = "previewed"
    /\ cancelSeen' = TRUE
    /\ UNCHANGED <<fs, dirs, clock, registry, pdfs, idx, cache, reserved_by_dir, items,
                   cancel_event, events, startClock, runs, last, prev, avars, envvars>>

RunSummary ==
    [valid |-> TRUE, items |-> items, pdfs |-> pdfs, fs |-> fs, dirs |-> dirs,
     clockLo |-> startClock, clockHi |-> clock]

\* Line 300: the loop ran out of files; return items.
PreviewReturn ==
    /\ pc = "preview"
    /\ idx > Len(pdfs)
    /\ pc' = "previewed"
    /\ last' = RunSummary
    /\ prev' = last
    /\ UNCHANGED <<fs, dirs, clock, registry, pdfs, idx, cache, reserved_by_dir, items,
                   cancel_event, cancelSeen, events, startClock, runs, avars, envvars>>

\* RenamerGUI._cancel: another thread sets the flag while a pass is running.
Cancel ==
    /\ pc \in {"preview", "apply"}
    /\ ~cancel_event
    /\ cancel_event' = TRUE
    /\ UNCHANGED <<fs, dirs, clock, registry, pc, pvars, avars, envvars>>

\* The wall clock reaches the next year; a pass is short, so between passes.
Tick ==
    /\ pc \in {"previewed", "applied"}
    /\ clock < MaxYear
    /\ clock' = clock + 1
    /\ UNCHANGED <<fs, dirs, registry, pc, cancel_event, pvars, avars, envvars>>

\* One planning pass.
Next ==
    \/ StartPreview
    \/ PreviewFile
    \/ PreviewCancelled
    \/ PreviewReturn
    \/ Cancel

Spec == Init /\ [][Next]_vars

\* Planning passes repeated over the same folder, as the GUI allows.
InitRerun ==
    /\ Init
    /\ opts.style = "prefix"
    /\ dirs = {Folder}

NextRerun ==
    \/ Next
    \/ Rerun
    \/ Tick

SpecRerun == InitRerun /\ [][NextRerun]_vars

\* A scan root with a subfolder, scanned with --recursive.
RecursiveWorlds ==
    LET cand == {FileRec(Folder, NameA, c) : c \in Contents}
                  \cup {FileRec(Sub, n, c) : n \in {NameA, NameT}, c \in Contents}
    IN  {w \in SUBSET cand :
            /\ Cardinality(w) <= MaxFiles
            /\ \A f, g \in w : PathOf(f) = PathOf(g) => f = g}

InitRecursive ==
    /\ \E w \in RecursiveWorlds, u \in UnmatchedWorlds :
          /\ fs = w \cup u
          /\ dirs = {Folder, Sub} \cup {f.dir : f \in u}
    /\ unlistable = {}
    /\ clock = InitYear
    /\ registry = [d \in DOIs |-> Unknown]
    /\ opts \in [style : {"prefix"}, no_crossref : BOOLEAN, unmatched_dir : {"", UnmatchedName},
                 maxlen : MaxLens, recursive : {TRUE}]
    /\ pc = "idle"
    /\ pdfs = <<>>
    /\ idx = 1
    /\ cache = <<>>
    /\ reserved_by_dir = <<>>
    /\ items = <<>>
    /\ cancel_event = FALSE
    /\ cancelSeen = FALSE
    /\ events = <<>>
    /\ startClock = InitYear
    /\ runs = 0
    /\ last = NoRun
    /\ prev = NoRun
    /\ aitems = <<>>
    /\ dry_run = FALSE
    /\ aidx = 1
    /\ renamed = 0
    /\ skipped = 0
    /\ failed = 0
    /\ notApplied = 0
    /\ alog = <<>>
    /\ applies = 0
    /\ call = NoCall
    /\ gui = NoGui

SpecRecursive == InitRecursive /\ [][Next]_vars

\* --maxlen values small enough for clamp_filename to cut the modelled names:
\* the least the property of the final name is stated for, and the length of
\* "On Trees.pdf".
ShortLens == {5, 12}

\* One planning pass with a small --maxlen.
InitShort ==
    /\ \E w \in Worlds :
          /\ fs = w
          /\ dirs = {Folder}
    /\ unlistable \in {{}, {Folder}}
    /\ clock = InitYear
    /\ registry = [d \in DOIs |-> Unknown]
    /\ opts \in [style : Styles, no_crossref : {TRUE}, unmatched_dir : {""},
                 maxlen : ShortLens, recursive : {FALSE}]
    /\ pc = "idle"
    /\ pdfs = <<>>
    /\ idx = 1
    /\ cache = <<>>
    /\ reserved_by_dir = <<>>
    /\ items = <<>>
    /\ cancel_event = FALSE
    /\ cancelSeen = FALSE
    /\ events = <<>>
    /\ startClock = InitYear
    /\ runs = 0
    /\ last = NoRun
    /\ prev = NoRun
    /\ aitems = <<>>
    /\ dry_run = FALSE
    /\ aidx = 1
    /\ renamed = 0
    /\ skipped = 0
    /\ failed = 0
    /\ notApplied = 0
    /\ alog = <<>>
    /\ applies = 0
    /\ call = NoCall
    /\ gui = NoGui

SpecShort == InitShort /\ [][Next]_vars

(***************************************************************************)
(* apply_changes.                                                          *)
(***************************************************************************)
MaxItems == 2        \* records handed to apply_changes

\* unique_path: the first free name on disk, probing with Path.exists().
unique_path(path) ==
    LET taken == {f.name : f \in {g \in fs : g.dir = path.dir}}
    IN  IF ~Exists(path) THEN path
        ELSE MkPath(path.dir, FirstFree(path.name, taken, 2))

\* Where the try block of lines 326-334 can raise for reasons outside the
\* model (permissions, path length): in mkdir, in exists or in rename.
Faults == {"none", "mkdir", "exists", "rename"}

AEv(kind, i) == [ev |-> kind, idx |-> i]

\* Path.rename: the file at src is at dst afterwards; a file that was at dst
\* is replaced, as POSIX rename does.
Renamed(src, dst) ==
    LET f == FileAt(src)
    IN  {g \in fs \ {f} : PathOf(g) # dst}
            \cup {[f EXCEPT !.dir = dst.dir, !.name = dst.name]}

\* The move made straight onto the planned target, occupied or not.
TryMove_NoProbe(item, fault) ==
    LET parent == item.new_path.dir
        made == dirs \cup {parent}
        target == item.new_path
    IN  IF fault = "mkdir"
        THEN [fs |-> fs, dirs |-> dirs, ok |-> FALSE, ops |-> <<>>]
        ELSE IF fault = "exists"
        THEN [fs |-> fs, dirs |-> made, ok |-> FALSE, ops |-> <<"mkdir">>]
        ELSE IF fault = "rename" \/ ~Exists(item.pdf)
        THEN [fs |-> fs, dirs |-> made, ok |-> FALSE, ops |-> <<"mkdir">>]
        ELSE [fs |-> Renamed(item.pdf, target), dirs |-> made, ok |-> TRUE,
              ops |-> <<"mkdir", "rename">>]

\* Lines 326-338 for one item: the disk afterwards, whether the move was
\* made, and the file operations performed.
TryMove(item, fault) ==
    LET parent == item.new_path.dir
        made == dirs \cup {parent}
        target == unique_path(item.new_path)
    IN  IF fault = "mkdir"
        THEN [fs |-> fs, dirs |-> dirs, ok |-> FALSE, ops |-> <<>>]
        ELSE IF fault = "exists"
        THEN [fs |-> fs, dirs |-> made, ok |-> FALSE, ops |-> <<"mkdir">>]
        ELSE IF fault = "rename" \/ ~Exists(item.pdf)
        THEN [fs |-> fs, dirs |-> made, ok |-> FALSE, ops |-> <<"mkdir">>]
        ELSE [fs |-> Renamed(item.pdf, target), dirs |-> made, ok |-> TRUE,
              ops |-> <<"mkdir", "rename">>]

\* A test of the apply flag alone, blind to a missing target.
NotSlated_ApplyOnly(item) == ~item.apply

\* Line 318: the record is not slated for execution.
NotSlated(item) == ~item.apply \/ item.new_path = NoPath

OpEvents(ops, i) == [k \in 1..Len(ops) |-> AEv(ops[k], i)]

\* The dry_run test of line 321 left out.
MoveOutcome_NoDry(item, fault) == TryMove(item, fault)

\* Line 321 onwards: what one slated item does to the disk; a dry run only logs.
MoveOutcome(item, fault) ==
    IF dry_run
    THEN [fs |-> fs, dirs |-> dirs, ok |-> TRUE, ops |-> <<>>]
    ELSE TryMove(item, fault)

\* No except clause: the error leaves apply_changes.
AfterTry_Raise(out) == IF out.ok THEN "apply" ELSE "raised"

\* Lines 335-338: the except clause catches the error and the loop goes on.
AfterTry(out) == "apply"

\* One iteration of the loop of lines 313-338 that passes the check of line 314.
ApplyItem ==
    /\ pc = "apply"
    /\ aidx <= Len(aitems)
    /\ ~CancelRequested
    /\ LET item == aitems[aidx]
       IN  IF NotSlated(item)
           THEN /\ skipped' = skipped + 1
                /\ notApplied' = notApplied + 1
                /\ alog' = Append(alog, AEv("progress", aidx))
                /\ UNCHANGED <<fs, dirs, pc, renamed, failed>>
           ELSE \E fault \in (IF dry_run THEN {"none"} ELSE Faults) :
                   LET out == MoveOutcome(item, fault)
                       line == IF ~out.ok THEN "log_fail"
                               ELSE IF dry_run THEN "log_dry" ELSE "log_ok"
                   IN  /\ fs' = out.fs
                       /\ dirs' = out.dirs
                       /\ renamed' = IF out.ok THEN renamed + 1 ELSE renamed
                       /\ skipped' = IF out.ok THEN skipped ELSE skipped + 1
                       /\ failed' = IF out.ok THEN failed ELSE failed + 1
                       /\ alog' = alog \o <<AEv("progress", aidx)>> \o OpEvents(out.ops, aidx)
                             \o <<AEv(line, aidx)>>
                       /\ pc' = AfterTry(out)
                       /\ UNCHANGED notApplied
    /\ aidx' = aidx + 1
    /\ UNCHANGED <<clock, registry, cancel_event, aitems, dry_run, applies, pvars, envvars>>

\* Lines 314-315 and 339: the flag is set when the loop reaches an item.
ApplyCancelled ==
    /\ pc = "apply"
    /\ aidx <= Len(aitems)
    /\ CancelRequested
    /\ pc' = "applied"
    /\ cancelSeen' = TRUE
    /\ UNCHANGED <<fs, dirs, clock, registry, cancel_event, pdfs, idx, cache, reserved_by_dir,
                   items, events, startClock, runs, last, prev, avars, envvars>>

\* Line 339: the loop ran out of items; return renamed, skipped.
ApplyReturn ==
    /\ pc = "apply"
    /\ aidx > Len(aitems)
    /\ pc' = "applied"
    /\ UNCHANGED <<fs, dirs, clock, registry, cancel_event, pvars, avars, envvars>>

\* The records a caller may hand to apply_changes.
ApplyPaths == {MkPath(Folder, NameA), MkPath(Folder, NameT)}

ApplyTargets == {NoPath, MkPath(Folder, NameT), MkPath(UnmatchedDir, NameA)}

ApplyRecords ==
    {PreviewItem(p, t, "", <<>>, 0, IF t = NoPath THEN "skip" ELSE "rename", "", a) :
        p \in ApplyPaths, t \in ApplyTargets, a \in BOOLEAN}

SeqsUpTo(S, n) == UNION {[1..k -> S] : k \in 0..n}

PlainFile(d, n) == FileRec(d, n, [title |-> <<>>, doi |-> "", years |-> <<>>])

\* apply_changes entered (lines 310-312) with any list of records, on any disk.
InitApply ==
    /\ \E w \in SUBSET {PlainFile(Folder, n) : n \in InitNames}, u \in UnmatchedWorlds :
          /\ fs = w \cup u
          /\ dirs = {Folder} \cup {f.dir : f \in u}
    /\ unlistable = {}
    /\ clock = InitYear
    /\ registry = [d \in DOIs |-> Unknown]
    /\ opts \in {o \in Options : o.style = "prefix" /\ ~o.no_crossref /\ o.unmatched_dir = UnmatchedName}
    /\ pc = "apply"
    /\ pdfs = <<>>
    /\ idx = 1
    /\ cache = <<>>
    /\ reserved_by_dir = <<>>
    /\ items = <<>>
    /\ cancel_event = FALSE
    /\ cancelSeen = FALSE
    /\ events = <<>>
    /\ startClock = InitYear
    /\ runs = 0
    /\ last = NoRun
    /\ prev = NoRun
    /\ aitems \in SeqsUpTo(ApplyRecords, MaxItems)
    /\ dry_run \in BOOLEAN
    /\ aidx = 1
    /\ renamed = 0
    /\ skipped = 0
    /\ failed = 0
    /\ notApplied = 0
    /\ alog = <<>>
    /\ applies = 1
    /\ call = NoCall
    /\ gui = NoGui

NextApply ==
    \/ ApplyItem
    \/ ApplyCancelled
    \/ ApplyReturn
    \/ Cancel

SpecApply == InitApply /\ [][NextApply]_vars

(***************************************************************************)
(* The helpers called on their own: sanitize_filename, clamp_filename and  *)
(* extract_year_from_text, each on one argument tuple drawn from a bounded *)
(* set.                                                                    *)
(***************************************************************************)
MaxStrLen == 3       \* characters in a name handed to a helper
MaxClampLen == 6     \* the largest max_len handed to clamp_filename
MaxWords == 3        \* number words in a text handed to extract_year_from_text

\* Whitespace, a dot, a forbidden character, NUL and a plain letter.
SanChars == {"a", " ", "\t", ".", ":", "NUL"}

StemChars == {"a", " "}

Suffixes == {<<>>, <<".", "p">>, PdfExt}

\* Number words below YEAR_RE's range, inside it, and around current year + 1.
YearWords == {1750, 2019, 2023, 2027, 2028}

SanitizeCalls ==
    {[fn |-> "sanitize_filename", args |-> [name |-> x], done |-> FALSE, res |-> <<>>] :
        x \in SeqsUpTo(SanChars, MaxStrLen)}

ClampCalls ==
    {[fn |-> "clamp_filename", args |-> [stem |-> x, suffix |-> e, max_len |-> m],
      done |-> FALSE, res |-> <<>>] :
        x \in SeqsUpTo(StemChars, MaxStrLen), e \in Suffixes, m \in 1..MaxClampLen}

YearCalls ==
    {[fn |-> "extract_year_from_text", args |-> [text |-> t], done |-> FALSE, res |-> <<>>] :
        t \in SeqsUpTo(YearWords, MaxWords)}

\* Everything but the call under evaluation.
progvars == <<fs, dirs, clock, registry, pc, cancel_event, pvars, avars, unlistable, opts, gui>>

InitCalls ==
    /\ fs = {}
    /\ dirs = {Folder}
    /\ unlistable = {}
    /\ clock \in InitYear..MaxYear
    /\ registry = [d \in DOIs |-> Unknown]
    /\ opts = [style |-> "prefix", no_crossref |-> TRUE, unmatched_dir |-> "", maxlen |-> 140,
               recursive |-> FALSE]
    /\ pc = "idle"
    /\ pdfs = <<>>
    /\ idx = 1
    /\ cache = <<>>
    /\ reserved_by_dir = <<>>
    /\ items = <<>>
    /\ cancel_event = FALSE
    /\ cancelSeen = FALSE
    /\ events = <<>>
    /\ startClock = clock
    /\ runs = 0
    /\ last = NoRun
    /\ prev = NoRun
    /\ aitems = <<>>
    /\ dry_run = FALSE
    /\ aidx = 1
    /\ renamed = 0
    /\ skipped = 0
    /\ failed = 0
    /\ notApplied = 0
    /\ alog = <<>>
    /\ applies = 0
    /\ call \in SanitizeCalls \cup ClampCalls \cup YearCalls
    /\ gui = NoGui

CallSanitize ==
    /\ call.fn = "sanitize_filename" /\ ~call.done
    /\ call' = [call EXCEPT !.done = TRUE, !.res = sanitize_filename(call.args.name)]
    /\ UNCHANGED progvars

CallClamp ==
    /\ call.fn = "clamp_filename" /\ ~call.done
    /\ call' = [call EXCEPT !.done = TRUE,
                            !.res = clamp_filename(call.args.stem, call.args.suffix,
                                                   call.args.max_len)]
    /\ UNCHANGED progvars

\* Lines 126-127 read the clock at the time of the call.
CallYear ==
    /\ call.fn = "extract_year_from_text" /\ ~call.done
    /\ call' = [call EXCEPT !.done = TRUE,
                            !.res = extract_year_from_text(call.args.text, clock)]
    /\ UNCHANGED progvars

NextCalls ==
    \/ CallSanitize
    \/ CallClamp
    \/ CallYear

SpecCalls == InitCalls /\ [][NextCalls]_vars

(***************************************************************************)
(* The GUI's record list: the selection handlers and "rename selected".    *)
(***************************************************************************)
MaxClicks == 2       \* selection operations in one behaviour

GuiPaths == {MkPath(Folder, n) : n \in InitNames}

\* The records the list can hold for a file: the placeholder of
\* _pending_items and the four records compute_preview constructs.
GuiRecords(p) ==
    { PreviewItem(p, NoPath, "", <<>>, 0, "pending", "pending", FALSE),
      PreviewItem(p, NoPath, "", <<>>, 0, "skip", "no title found", FALSE),
      PreviewItem(p, p, "", TitleMeta, 0, "ok", "already good name", FALSE),
      PreviewItem(p, MkPath(p.dir, Numbered(p.name, 2)), "", TitleMeta, 0, "rename", "ready", TRUE),
      PreviewItem(p, MkPath(UnmatchedDir, p.name), "", <<>>, 0, "move", "no title found", TRUE) }

\* Lists of at most MaxItems records, one per file.
GuiLists ==
    {l \in SeqsUpTo(UNION {GuiRecords(p) : p \in GuiPaths}, MaxItems) :
        \A i, j \in 1..Len(l) : i # j => l[i].pdf # l[j].pdf}

InitGui ==
    /\ fs = {PlainFile(Folder, n) : n \in InitNames}
    /\ dirs = {Folder}
    /\ unlistable = {}
    /\ clock = InitYear
    /\ registry = [d \in DOIs |-> Unknown]
    /\ opts = [style |-> "prefix", no_crossref |-> FALSE, unmatched_dir |-> UnmatchedName,
               maxlen |-> 140, recursive |-> FALSE]
    /\ pc = "previewed"
    /\ pdfs = <<>>
    /\ idx = 1
    /\ cache = <<>>
    /\ reserved_by_dir = <<>>
    /\ items \in GuiLists
    /\ cancel_event = FALSE
    /\ cancelSeen = FALSE
    /\ events = <<>>
    /\ startClock = InitYear
    /\ runs = 1
    /\ last = NoRun
    /\ prev = NoRun
    /\ aitems = <<>>
    /\ dry_run = FALSE
    /\ aidx = 1
    /\ renamed = 0
    /\ skipped = 0
    /\ failed = 0
    /\ notApplied = 0
    /\ alog = <<>>
    /\ applies = 0
    /\ call = NoCall
    /\ gui = NoGui

\* Handlers that flip or set the flag of every record, whatever its status.
Selectable_Any(item) == TRUE

\* Lines 722, 733 and 744: `item.status not in ("skip", "ok", "pending")`.
Selectable(item) == item.status \notin {"skip", "ok", "pending"}

\* to_apply holds the very records of self.items: a change of a record's
\* flag shows in the list handed to the worker.
Aliased(its) ==
    [k \in 1..Len(aitems) |->
        its[CHOOSE i \in 1..Len(its) : its[i].pdf = aitems[k].pdf]]

\* The state after a selection handler that leaves the list as its.
Clicked(kind, its) ==
    /\ Len(events) < MaxClicks
    /\ items' = its
    /\ aitems' = IF pc = "apply" THEN Aliased(its) ELSE aitems
    /\ events' = Append(events, kind)
    /\ UNCHANGED <<fs, dirs, clock, registry, pc, cancel_event, pdfs, idx, cache,
                   reserved_by_dir, cancelSeen, startClock, runs, last, prev, dry_run, aidx,
                   renamed, skipped, failed, notApplied, alog, applies, envvars>>

\* _toggle_apply on the selected rows; the tree binding stays live while busy.
ToggleApply ==
    \E sel \in SUBSET (1..Len(items)) \ {{}} :
        Clicked("toggle",
                [i \in 1..Len(items) |->
                    IF i \in sel /\ Selectable(items[i])
                    THEN [items[i] EXCEPT !.apply = ~@] ELSE items[i]])

\* _select_all; its button is disabled while a worker runs (_set_busy).
SelectAll ==
    /\ pc # "apply"
    /\ Clicked("select_all",
               [i \in 1..Len(items) |->
                   IF Selectable(items[i]) THEN [items[i] EXCEPT !.apply = TRUE]
                   ELSE items[i]])

\* _select_none.
SelectNone ==
    /\ pc # "apply"
    /\ Clicked("select_none", [i \in 1..Len(items) |-> [items[i] EXCEPT !.apply = FALSE]])

\* _invert.
Invert ==
    /\ pc # "apply"
    /\ Clicked("invert",
               [i \in 1..Len(items) |->
                   IF Selectable(items[i]) THEN [items[i] EXCEPT !.apply = ~@]
                   ELSE items[i]])

\* Line 786: to_apply.
ToApply(its) == SelectSeq(its, LAMBDA it : it.apply /\ it.new_path # NoPath)

\* _rename_selected up to the start of the worker: nothing happens on an
\* empty list, with nothing selected, or when the user declines.
RenameSelected ==
    /\ pc # "apply"
    /\ items # <<>>
    /\ cancel_event' = FALSE
    /\ \E confirmed \in BOOLEAN :
          IF ToApply(items) # <<>> /\ confirmed
          THEN /\ pc' = "apply"
               /\ aitems' = ToApply(items)
               /\ dry_run' = FALSE
               /\ aidx' = 1
               /\ renamed' = 0
               /\ skipped' = 0
               /\ failed' = 0
               /\ notApplied' = 0
               /\ alog' = <<>>
               /\ applies' = applies + 1
          ELSE UNCHANGED <<pc, avars>>
    /\ UNCHANGED <<fs, dirs, clock, registry, pvars, envvars>>

NextGui ==
    \/ ToggleApply
    \/ SelectAll
    \/ SelectNone
    \/ Invert
    \/ RenameSelected

SpecGui == InitGui /\ [][NextGui]_vars

(***************************************************************************)
(* The GUI's worker protocol: _preview, _list_pdfs, _rename_selected and   *)
(* _cancel on the Tk thread, the worker threads they start, and            *)
(* _poll_queue.  A worker is the stream of messages it puts on the queue;  *)
(* what the passes do to records and disk is the subject of the            *)
(* specifications above.  Handlers of the Tk thread run one at a time, so  *)
(* a click is served only while _poll_queue is not running; the worker     *)
(* threads interleave with every step of _poll_queue.                      *)
(***************************************************************************)
\* Workers the user starts in one session of the GUI.
MaxStarts == 3

Terminals == {"done_preview", "cancelled_preview", "done_rename", "cancelled_rename", "error"}

Msg(kind, i, arg) == [kind |-> kind, idx |-> i, arg |-> arg]

\* The record a preview worker reports for a file: a.pdf has no title and no
\* unmatched directory is set, the other files are renamed.
PlannedRecord(p) ==
    IF p.name = NameA
    THEN PreviewItem(p, NoPath, "", <<>>, 0, "skip", "no title found", FALSE)
    ELSE PreviewItem(p, MkPath(p.dir, Numbered(p.name, 2)), "", TitleMeta, 0, "rename", "ready", TRUE)

\* _pending_items.
PendingItems(ps) ==
    [k \in 1..Len(ps) |-> PreviewItem(ps[k], NoPath, "", <<>>, 0, "pending", "pending", FALSE)]

\* A started thread: what it runs, the list it works on, its loop index and
\* where it stands: at the head of the loop, inside an iteration, after the
\* loop, or past its last put and about to end.
Thread(kind, list) ==
    [kind |-> kind, list |-> list, i |-> 1, phase |-> "head", latest |-> TRUE]

\* `self._worker and self._worker.is_alive()`.
WorkerAlive ==
    gui.worker /\ \E k \in 1..Len(gui.threads) : gui.threads[k].latest

\* Lines 601, 755 and 779: the request returns at once.
RequestBlocked == WorkerAlive

guiRest ==
    <<fs, dirs, clock, registry, pc, pdfs, idx, cache, reserved_by_dir, cancelSeen, events,
      startClock, runs, last, prev, avars, unlistable, opts, call>>

\* threading.Thread(target=worker).start() followed by self._poll_queue().
Started(g, kind, list) ==
    [g EXCEPT !.threads = [k \in 1..Len(@) |-> [@[k] EXCEPT !.latest = FALSE]]
                              \o <<Thread(kind, list)>>,
              !.worker = TRUE, !.busy = TRUE, !.poll = "drain"]

\* _preview (lines 600-662), entered with the GUI state g.
PreviewBody(g) ==
    LET found == collect_pdfs(Folder, FALSE)
    IN  IF RequestBlocked
        THEN /\ gui' = g
             /\ UNCHANGED <<items, cancel_event>>
        ELSE /\ cancel_event' = FALSE
             /\ IF found = <<>>
                THEN /\ gui' = g
                     /\ UNCHANGED items
                ELSE /\ items' = PendingItems(found)
                     /\ gui' = Started(g, "preview", found)

\* The preview button.
ClickPreview ==
    /\ gui.poll = "idle" /\ ~gui.busy
    /\ gui.starts < MaxStarts
    /\ PreviewBody([gui EXCEPT !.starts = @ + 1])
    /\ UNCHANGED guiRest

\* root.after(0, self._preview), scheduled by the done_rename handler.
AutoPreview ==
    /\ gui.poll = "idle" /\ gui.auto
    /\ PreviewBody([gui EXCEPT !.auto = FALSE])
    /\ UNCHANGED guiRest

\* _list_pdfs (lines 754-776).
ClickList ==
    /\ gui.poll = "idle" /\ ~gui.busy
    /\ LET found == collect_pdfs(Folder, FALSE)
       IN  IF RequestBlocked
           THEN gui' = gui /\ UNCHANGED items
           ELSE IF found = <<>>
           THEN gui' = gui /\ UNCHANGED items
           ELSE gui' = gui /\ items' = PendingItems(found)
    /\ UNCHANGED <<cancel_event, guiRest>>

\* _rename_selected (lines 778-818).
ClickRename ==
    /\ gui.poll = "idle" /\ ~gui.busy
    /\ gui.starts < MaxStarts
    /\ IF RequestBlocked
       THEN gui' = gui /\ UNCHANGED cancel_event
       ELSE IF items = <<>>
       THEN gui' = gui /\ UNCHANGED cancel_event
       ELSE /\ cancel_event' = FALSE
            /\ \E confirmed \in BOOLEAN :
                  IF ToApply(items) # <<>> /\ confirmed
                  THEN gui' = Started([gui EXCEPT !.starts = @ + 1], "rename", ToApply(items))
                  ELSE gui' = gui
    /\ UNCHANGED <<items, guiRest>>

\* _cancel (lines 748-752); its button is enabled while busy.
ClickCancel ==
    /\ gui.poll = "idle" /\ gui.busy
    /\ cancel_event' = (cancel_event \/ WorkerAlive)
    /\ UNCHANGED <<gui, items, guiRest>>

Put(g, k, msg, phase, i) ==
    [g EXCEPT !.queue = Append(@, msg),
              !.threads[k].phase = phase,
              !.threads[k].i = i]

\* The top of the loop of compute_preview / apply_changes in thread k: leave
\* the loop when the list is done or the flag is set, else report progress.
WorkerLoopHead ==
    \E k \in 1..Len(gui.threads) :
        LET t == gui.threads[k]
        IN  /\ t.phase = "head"
            /\ IF t.i > Len(t.list) \/ cancel_event
               THEN gui' = [gui EXCEPT !.threads[k].phase = "end"]
               ELSE gui' = Put(gui, k, Msg("progress", t.i, <<>>), "body", t.i)
            /\ UNCHANGED <<items, cancel_event, guiRest>>

\* The rest of the iteration: item_cb puts ("item", i - 1, record) in a
\* preview, log puts a line in a rename.
WorkerLoopBody ==
    \E k \in 1..Len(gui.threads) :
        LET t == gui.threads[k]
        IN  /\ t.phase = "body"
            /\ gui' = IF t.kind = "preview"
                      THEN Put(gui, k, Msg("item", t.i - 1, PlannedRecord(t.list[t.i])),
                               "head", t.i + 1)
                      ELSE Put(gui, k, Msg("log", t.i, <<>>), "head", t.i + 1)
            /\ UNCHANGED <<items, cancel_event, guiRest>>

\* The pass raised: `except Exception` puts ("error", str(e)).
WorkerRaise ==
    \E k \in 1..Len(gui.threads) :
        LET t == gui.threads[k]
        IN  /\ t.phase \in {"head", "body"}
            /\ gui' = Put(gui, k, Msg("error", 0, <<>>), "exit", t.i)
            /\ UNCHANGED <<items, cancel_event, guiRest>>

\* The pass returned: the terminal message chosen by cancel_event.is_set().
WorkerEnd ==
    \E k \in 1..Len(gui.threads) :
        LET t == gui.threads[k]
            result == [j \in 1..(t.i - 1) |-> PlannedRecord(t.list[j])]
            msg == IF t.kind = "preview"
                   THEN IF cancel_event THEN Msg("cancelled_preview", 0, <<>>)
                        ELSE Msg("done_preview", 0, result)
                   ELSE IF cancel_event THEN Msg("cancelled_rename", 0, <<>>)
                        ELSE Msg("done_rename", 0, <<>>)
        IN  /\ t.phase = "end"
            /\ gui' = Put(gui, k, msg, "exit", t.i)
            /\ UNCHANGED <<items, cancel_event, guiRest>>

\* The thread function returns: is_alive() is false from now on.
WorkerExit ==
    \E k \in 1..Len(gui.threads) :
        /\ gui.threads[k].phase = "exit"
        /\ gui' = [gui EXCEPT !.threads = SubSeq(@, 1, k - 1) \o SubSeq(@, k + 1, Len(@))]
        /\ UNCHANGED <<items, cancel_event, guiRest>>

\* root.after(100, self._poll_queue) comes due.
PollFire ==
    /\ gui.poll = "idle" /\ gui.timers > 0
    /\ gui' = [gui EXCEPT !.timers = @ - 1, !.poll = "drain"]
    /\ UNCHANGED <<items, cancel_event, guiRest>>

\* _set_busy(False); self._worker = None.
Released(g) == [g EXCEPT !.busy = FALSE, !.worker = FALSE]

\* Lines 541-587: get_nowait() returned a message; its handler.
PollGet ==
    /\ gui.poll = "drain" /\ gui.queue # <<>>
    /\ LET msg == Head(gui.queue)
           g == [gui EXCEPT !.queue = Tail(@)]
       IN  /\ gui' = IF msg.kind = "done_rename" THEN [Released(g) EXCEPT !.auto = TRUE]
                     ELSE IF msg.kind \in Terminals THEN Released(g)
                     ELSE g
           /\ items' = IF msg.kind = "done_preview" THEN msg.arg
                       ELSE IF msg.kind = "item" /\ 0 <= msg.idx /\ msg.idx < Len(items)
                       THEN [items EXCEPT ![msg.idx + 1] = msg.arg]
                       ELSE items
    /\ UNCHANGED <<cancel_event, guiRest>>

\* Line 588: get_nowait() raised queue.Empty.
PollEmpty ==
    /\ gui.poll = "drain" /\ gui.queue = <<>>
    /\ gui' = [gui EXCEPT !.poll = "check"]
    /\ UNCHANGED <<items, cancel_event, guiRest>>

\* Lines 590-591: poll again in 100 ms if the worker is alive.
PollCheck ==
    /\ gui.poll = "check"
    /\ gui' = [gui EXCEPT !.poll = "idle",
                          !.timers = IF WorkerAlive THEN @ + 1 ELSE @]
    /\ UNCHANGED <<items, cancel_event, guiRest>>

\* The GUI just opened on a folder of at most one PDF.
InitWorker ==
    /\ fs \in {w \in SUBSET {PlainFile(Folder, n) : n \in InitNames} : Cardinality(w) <= 1}
    /\ dirs = {Folder}
    /\ unlistable = {}
    /\ clock = InitYear
    /\ registry = [d \in DOIs |-> Unknown]
    /\ opts = [style |-> "prefix", no_crossref |-> FALSE, unmatched_dir |-> "",
               maxlen |-> 140, recursive |-> FALSE]
    /\ pc = "idle"
    /\ pdfs = <<>>
    /\ idx = 1
    /\ cache = <<>>
    /\ reserved_by_dir = <<>>
    /\ items = <<>>
    /\ cancel_event = FALSE
    /\ cancelSeen = FALSE
    /\ events = <<>>
    /\ startClock = InitYear
    /\ runs = 0
    /\ last = NoRun
    /\ prev = NoRun
    /\ aitems = <<>>
    /\ dry_run = FALSE
    /\ aidx = 1
    /\ renamed = 0
    /\ skipped = 0
    /\ failed = 0
    /\ notApplied = 0
    /\ alog = <<>>
    /\ applies = 0
    /\ call = NoCall
    /\ gui = NoGui

NextWorker ==
    \/ ClickPreview
    \/ AutoPreview
    \/ ClickList
    \/ ClickRename
    \/ ClickCancel
    \/ WorkerLoopHead
    \/ WorkerLoopBody
    \/ WorkerRaise
    \/ WorkerEnd
    \/ WorkerExit
    \/ PollFire
    \/ PollGet
    \/ PollEmpty
    \/ PollCheck

SpecWorker == InitWorker /\ [][NextWorker]_vars

(***************************************************************************)
(* Properties.                                                             *)
(***************************************************************************)
ItemIdx == 1..Len(items)

\* The name lines 264-265 build for a record's title and year.
Candidate(it) ==
    clamp_filename(build_new_stem(it.title, it.year, opts.style), PdfExt, opts.maxlen)

NamesIn(d) == {f.name : f \in {g \in fs : g.dir = d}}

\* C1: a file that exists in its parent directory and whose candidate name
\* (sanitized, clamped) equals its current name gets status ok, apply false.
C1_GoodNameIsOk ==
    \A i \in ItemIdx :
        LET it == items[i]
        IN  (it.title # <<>> /\ it.old_name \in NamesIn(it.pdf.dir) /\ Candidate(it) = it.old_name)
                => (it.status = "ok" /\ ~it.apply)

\* C2: a record has a target path iff its status is rename or move.
C2_TargetIffRenameOrMove ==
    \A i \in ItemIdx :
        (items[i].new_path # NoPath) <=> (items[i].status \in {"rename", "move"})

TargetsIn(d) == {i \in ItemIdx : items[i].new_path # NoPath /\ items[i].new_path.dir = d}

\* C3: in every destination directory the planned target names are pairwise
\* distinct and none is a name of that directory's snapshot.
C3_TargetsDistinctAndFresh ==
    \A d \in Dirs :
        /\ \A i, j \in TargetsIn(d) :
              i # j => items[i].new_path.name # items[j].new_path.name
        /\ \A i \in TargetsIn(d) : items[i].new_path.name \notin Listing(d)

\* Two files proposing the same name, which the snapshot already holds.
C3_Witness ==
    /\ pc = "previewed"
    /\ Folder \notin unlistable
    /\ Len(items) = 2
    /\ items[1].status = "rename" /\ items[2].status = "rename"
    /\ Candidate(items[1]) = Candidate(items[2])
    /\ Candidate(items[1]) \in Listing(Folder)
    /\ Numbered(Candidate(items[1]), 2) \in Listing(Folder)

\* C4: every record's status is rename, move, ok or skip, and it is slated
\* for execution exactly when the status is rename or move.
C4_TerminalStatusAndApply ==
    \A i \in ItemIdx :
        /\ items[i].status \in {"rename", "move", "ok", "skip"}
        /\ items[i].apply <=> (items[i].status \in {"rename", "move"})

C4_Witness ==
    /\ pc = "previewed"
    /\ \E i, j \in ItemIdx : items[i].status = "rename" /\ items[j].status = "skip"

LookupCount(d) ==
    Cardinality({k \in 1..Len(events) : events[k].ev = "lookup" /\ events[k].doi = d})

\* C5: within one planning pass crossref_lookup is called at most once per
\* DOI, whatever the first call gave.
C5_OneLookupPerDoi == \A d \in DOIs : LookupCount(d) <= 1

\* Two files share a DOI whose lookup raised.
C5_Witness ==
    /\ pc = "previewed"
    /\ ~opts.no_crossref
    /\ Len(items) = 2
    /\ items[1].doi # "" /\ items[1].doi = items[2].doi
    /\ registry[items[1].doi].raises
    /\ LookupCount(items[1].doi) = 1

SlatedBefore(k) == Cardinality({i \in 1..(k - 1) : ~NotSlated(aitems[i])})

\* C6: a dry run never changes the disk and counts every slated record with
\* a target as renamed.
C6_DryRunTouchesNothing ==
    [][dry_run => /\ fs' = fs
                  /\ dirs' = dirs
                  /\ renamed' = SlatedBefore(aidx')]_vars

C6_Witness ==
    /\ dry_run
    /\ pc = "applied"
    /\ ~cancelSeen
    /\ renamed = 1
    /\ skipped = 1

SameInputs == last.valid /\ prev.valid /\ last.fs = prev.fs /\ last.dirs = prev.dirs /\ last.pdfs = prev.pdfs

SameYear == prev.clockLo = last.clockHi

\* C7 as stated: planning changes nothing on disk, and two passes over the
\* same unchanged folder with the same lookup answers give the same records.
C7_ReadOnlyAndDeterministic ==
    [][/\ pc = "preview" => (fs' = fs /\ dirs' = dirs)
       /\ SameInputs' => (last.items = prev.items)']_vars

\* C7 amended: the same, for two passes made in the same calendar year.
C7_DeterministicWithinYear ==
    [][/\ pc = "preview" => (fs' = fs /\ dirs' = dirs)
       /\ (SameInputs /\ SameYear)' => (last.items = prev.items)']_vars

\* Two full passes in one year that planned a rename.
C7_Witness ==
    /\ SameInputs
    /\ SameYear
    /\ \E i \in 1..Len(last.items) : last.items[i].status = "rename"
    /\ \E i \in 1..Len(last.items) : last.items[i].year = 2019

\* C8: an error raised while an item is moved never ends the batch: the loop
\* goes on, and an uncancelled pass returns counts covering every item.
C8_FailureDoesNotAbort ==
    failed > 0 =>
        /\ pc \in {"apply", "applied"}
        /\ renamed + skipped = aidx - 1
        /\ (pc = "applied" /\ ~cancelSeen) => renamed + skipped = Len(aitems)

\* The first item failed and the second was still moved.
C8_Witness ==
    /\ pc = "applied"
    /\ ~cancelSeen
    /\ \E k \in 1..Len(alog) : alog[k] = AEv("log_fail", 1)
    /\ \E k \in 1..Len(alog) : alog[k] = AEv("log_ok", 2)

\* C9: the returned counts tell failures from skips: the skipped count is the
\* number of records not slated (apply false or no target).
C9_SkippedExcludesFailures ==
    pc = "applied" => skipped = notApplied

EventsOf(i) == {k \in 1..Len(events) : events[k].idx = i}

IsPrefix(s, t) == Len(s) <= Len(t) /\ s = SubSeq(t, 1, Len(s))

C10_State ==
    /\ Len(items) = idx - 1
    /\ \A i \in ItemIdx : items[i].pdf = pdfs[i]
    /\ \A k \in 1..Len(events) : events[k].idx \in ItemIdx
    /\ \A i \in ItemIdx :
          /\ Cardinality({k \in EventsOf(i) : events[k].ev = "progress"}) = 1
          /\ Cardinality({k \in EventsOf(i) : events[k].ev = "item"}) = 1
    /\ (pc = "previewed" /\ ~cancelSeen) => Len(items) = Len(pdfs)
    /\ (pc = "previewed" /\ cancelSeen) => Len(items) < Len(pdfs)
    /\ (last.valid /\ last.fs = fs /\ last.dirs = dirs /\ last.pdfs = pdfs /\ last.clockHi = clock
           /\ pc \in {"preview", "previewed"})
          => IsPrefix(items, last.items)

\* C10: once the flag is set when the loop reaches file k, nothing more is
\* extracted, looked up, reported or recorded; the result is the records of
\* files 1..k-1 in input order, a prefix of the uncancelled result; with the
\* flag never set there is one record per file, in input order.
C10_CancelStopsAtNextFile ==
    [][/\ (pc = "preview" /\ cancel_event)
          => (items' = items /\ events' = events /\ pc' = "previewed")
       /\ C10_State']_vars

\* A second pass cancelled after one of two files.
C10_Witness ==
    /\ pc = "previewed"
    /\ cancelSeen
    /\ Len(items) = 1
    /\ last.valid /\ last.fs = fs /\ last.clockHi = clock
    /\ Len(last.items) = 2

AEventsFrom(k) == {j \in 1..Len(alog) : alog[j].idx >= k}

C11_State ==
    /\ pc \in {"apply", "applied"} => renamed + skipped = aidx - 1
    /\ (pc = "applied" /\ ~cancelSeen) => renamed + skipped = Len(aitems)
    /\ (pc = "applied" /\ cancelSeen)
          => (aidx <= Len(aitems) /\ cancel_event /\ AEventsFrom(aidx) = {})

\* C11: apply_changes tests the flag before each item; once it finds the flag
\* set before item k, items k..n cause no file operation and no callback and
\* the returned counts sum to k-1; with the flag never found set, the counts
\* sum to the number of input records.
C11_ApplyCancelStopsAtNextItem ==
    [][/\ (pc = "apply" /\ cancel_event /\ aidx <= Len(aitems))
          => (/\ UNCHANGED <<fs, dirs, alog, renamed, skipped, aidx>>
              /\ pc' = "applied")
       /\ pc = "applied" => UNCHANGED <<fs, dirs, alog, renamed, skipped>>
       /\ C11_State']_vars

\* An apply pass over two records, cancelled after the first was renamed.
C11_Witness ==
    /\ pc = "applied"
    /\ cancelSeen
    /\ Len(aitems) = 2
    /\ aidx = 2
    /\ renamed = 1
    /\ ~dry_run

\* C12: sanitize_filename is idempotent: sanitizing its result again gives
\* the same string.
C12_SanitizeIdempotent ==
    (call.fn = "sanitize_filename" /\ call.done)
        => sanitize_filename(call.res) = call.res

EndsWith(s, e) == Len(e) <= Len(s) /\ SubSeq(s, Len(s) - Len(e) + 1, Len(s)) = e

\* C13 as stated: for every stem, extension and max_len > 0 the clamped name
\* is at most max_len long and ends with the whole extension.
C13_ClampWithinMaxlen ==
    (call.fn = "clamp_filename" /\ call.done)
        => (Len(call.res) <= call.args.max_len /\ EndsWith(call.res, call.args.suffix))

\* C13 amended: the clamped name ends with the whole extension; it is at most
\* max_len long when max_len exceeds the extension's length, and at most one
\* character longer than the extension otherwise.
C13_ClampWithinMaxlenOrOneChar ==
    (call.fn = "clamp_filename" /\ call.done)
        => LET a == call.args
           IN  /\ EndsWith(call.res, a.suffix)
               /\ a.max_len > Len(a.suffix) => Len(call.res) <= a.max_len
               /\ a.max_len <= Len(a.suffix) => Len(call.res) <= Len(a.suffix) + 1

\* A stem cut to fit, with the blank left at the cut trimmed away.
C13_Witness ==
    /\ call.fn = "clamp_filename" /\ call.done
    /\ call.args.stem = <<"a", " ", "a">>
    /\ call.args.suffix = PdfExt
    /\ call.args.max_len = 6
    /\ call.res = <<"a">> \o PdfExt

\* What the registry told the pass about a record's DOI: nothing when the
\* file has no DOI, lookups are disabled or the lookup failed.
LookupOf(it) ==
    IF it.doi = "" \/ opts.no_crossref \/ registry[it.doi].raises THEN NoAnswer
    ELSE registry[it.doi]

TextGuess(it) == extract_year_from_text(FileAt(it.pdf).years, clock)

\* C14: a title from the lookup replaces the metadata title and a year from
\* the lookup replaces the text guess; the metadata title and the text guess
\* are used only when the lookup gave none (or was not made).
C14_LookupOverridesGuesses ==
    \A i \in ItemIdx :
        LET it == items[i]
            a == LookupOf(it)
        IN  /\ it.doi = FileAt(it.pdf).doi
            /\ a.title # <<>> => it.title = a.title
            /\ a.title = <<>> => it.title = FileAt(it.pdf).title
            /\ a.year # 0 => it.year = a.year
            /\ a.year = 0 => it.year = TextGuess(it)

\* A file with a metadata title and a year in its text, whose DOI the
\* registry knows under another title and year.
C14_Witness ==
    /\ pc = "previewed"
    /\ \E i \in ItemIdx :
          /\ FileAt(items[i].pdf).title = TitleMeta
          /\ TextGuess(items[i]) = 2019
          /\ registry[items[i].doi].title = TitleCf
          /\ items[i].title = TitleCf
          /\ items[i].year = 2021

\* The names reserved in directory d when the pass reaches file i: the
\* directory's snapshot and the targets given to the files before it.
ReservedBefore(d, i) ==
    Listing(d) \cup {items[j].new_path.name :
                        j \in {k \in 1..(i - 1) : items[k].new_path # NoPath
                                                    /\ items[k].new_path.dir = d}}

\* C15: a file with no title is slated to move to <scan root>/<unmatched_dir>
\* under its own name (numbered only if that name is reserved there) when an
\* unmatched directory is configured, whatever the file's own folder; with
\* none configured it is skipped, has no target and is not slated.
C15_UntitledMovesUnderRoot ==
    \A i \in ItemIdx :
        LET it == items[i]
            um == Append(Folder, opts.unmatched_dir)
        IN  it.title = <<>> =>
              IF opts.unmatched_dir # ""
              THEN /\ it.status = "move" /\ it.apply
                   /\ it.new_path.dir = um
                   /\ it.old_name \notin ReservedBefore(um, i) => it.new_path.name = it.old_name
                   /\ it.old_name \in ReservedBefore(um, i)
                         => /\ it.new_path.name # it.old_name
                            /\ \E k \in 2..(Cardinality(ReservedBefore(um, i)) + 1) :
                                  it.new_path.name = Numbered(it.old_name, k)
              ELSE it.status = "skip" /\ it.new_path = NoPath /\ ~it.apply

\* Two untitled files of the same name, one in the scan root and one in a
\* subfolder, both sent to the unmatched directory of the scan root.
C15_Witness ==
    /\ pc = "previewed"
    /\ Len(items) = 2
    /\ items[1].pdf = MkPath(Folder, NameA)
    /\ items[2].pdf = MkPath(Sub, NameA)
    /\ items[1].new_path = MkPath(UnmatchedDir, NameA)
    /\ items[2].new_path = MkPath(UnmatchedDir, Numbered(NameA, 2))

\* "{year} - {T}", "{T} ({year})" or T, for T the title as a file name.
StyledStem(T, year, style) ==
    IF year = 0 THEN T
    ELSE IF style = "prefix" THEN IntToStr(year) \o <<" ", "-", " ">> \o T
    ELSE T \o <<" ", "(">> \o IntToStr(year) \o <<")">>

Name2019OnTrees ==
    <<"2", "0", "1", "9", " ", "-", " ", "O", "n", " ", "T", "r", "e", "e", "s">> \o PdfExt

Name2019OnTrees2 ==
    <<"2", "0", "1", "9", " ", "-", " ", "O", "n", " ", "T", "r", "e", "e", "s",
      " ", "(", "2", ")">> \o PdfExt

\* C16: a titled file is planned under "{year} - {T}" (prefix), "{T} ({year})"
\* (suffix) or T alone when it has no year, T being the sanitized title, plus
\* the extension; " (N)" is added exactly when that name is already reserved.
\* The title "On Trees" with year 2019 and style prefix gives
\* "2019 - On Trees.pdf", or "2019 - On Trees (2).pdf" when that name is taken.
C16_StemFollowsStyle ==
    \A i \in ItemIdx :
        LET it == items[i]
            want == StyledStem(sanitize_filename(it.title), it.year, opts.style) \o PdfExt
            res == ReservedBefore(it.pdf.dir, i)
        IN  it.title # <<>> =>
              /\ want \notin res => it.new_path.name = want
              /\ (want \in res /\ Numbered(want, 2) \notin res)
                    => it.new_path.name = Numbered(want, 2)
              /\ want \in res => \E k \in 2..(Cardinality(res) + 1) :
                                    it.new_path.name = Numbered(want, k)
              /\ (it.title = TitleMeta /\ it.year = 2019 /\ opts.style = "prefix")
                    => /\ want = Name2019OnTrees
                       /\ Numbered(want, 2) = Name2019OnTrees2

\* Two files with the title "On Trees" and the year 2019, style prefix: the
\* second gets the numbered name.
C16_Witness ==
    /\ pc = "previewed"
    /\ opts.style = "prefix"
    /\ Len(items) = 2
    /\ items[1].title = TitleMeta /\ items[1].year = 2019
    /\ items[2].title = TitleMeta /\ items[2].year = 2019
    /\ items[1].new_path.name = Name2019OnTrees
    /\ items[2].new_path.name = Name2019OnTrees2

\* C17: every record's year is absent or lies in (1800, current year + 1],
\* whether it came from the text or from the lookup.
C17_YearInRange ==
    \A i \in ItemIdx :
        items[i].year = 0 \/ (1800 < items[i].year /\ items[i].year <= clock + 1)

\* The 19dd/20dd words of a text that lie in (1800, current year + 1].
YearsInRange(text, current_year) ==
    {w \in {text[k] : k \in 1..Len(text)} :
        /\ w \div 100 \in {19, 20}
        /\ 1800 < w /\ w <= current_year + 1}

\* C18: extract_year_from_text returns the greatest 19dd/20dd token of the
\* text within (1800, current year + 1], and nothing when there is none; a
\* text holding 2019, 2023 and 1750 gives 2023.
C18_YearIsMaxInRange ==
    (call.fn = "extract_year_from_text" /\ call.done)
        => LET ys == YearsInRange(call.args.text, clock)
           IN  /\ ys = {} => call.res = 0
               /\ ys # {} => (call.res \in ys /\ \A y \in ys : y <= call.res)
               /\ call.args.text = <<2019, 2023, 1750>> => call.res = 2023

\* The text of the example: the greatest token is not the first.
C18_Witness ==
    /\ call.fn = "extract_year_from_text" /\ call.done
    /\ call.args.text = <<2019, 2023, 1750>>
    /\ call.res = 2023

\* C19: a record with apply false or with no target is counted as skipped
\* and causes no file operation and no log line, in a dry run and in a real
\* one; only the progress callback hears of it.
C19_UnslatedSkippedSilently ==
    [][(/\ pc = "apply"
        /\ aidx <= Len(aitems)
        /\ aidx' = aidx + 1
        /\ (~aitems[aidx].apply \/ aitems[aidx].new_path = NoPath))
          => /\ skipped' = skipped + 1
             /\ renamed' = renamed
             /\ fs' = fs /\ dirs' = dirs
             /\ alog' = Append(alog, AEv("progress", aidx))]_vars

\* A real pass over a slated record without target and an unslated record
\* with one: both skipped, nothing touched, nothing logged.
C19_Witness ==
    /\ pc = "applied"
    /\ ~dry_run
    /\ Len(aitems) = 2
    /\ aitems[1].apply /\ aitems[1].new_path = NoPath
    /\ ~aitems[2].apply /\ aitems[2].new_path # NoPath
    /\ skipped = 2 /\ renamed = 0
    /\ alog = <<AEv("progress", 1), AEv("progress", 2)>>

\* C20: whatever toggles, select-all, select-none and inversions are made,
\* every record whose status is ok, skip or pending keeps apply false, and
\* no such record is in the list "rename selected" hands to apply_changes.
C20_UnselectableStayUnslated ==
    /\ \A i \in ItemIdx :
          items[i].status \in {"ok", "skip", "pending"} => ~items[i].apply
    /\ \A k \in 1..Len(aitems) :
          /\ aitems[k].status \notin {"ok", "skip", "pending"}
          /\ \E i \in ItemIdx : items[i] = aitems[k]

\* A list with an up-to-date file and a rename, inverted twice and handed over.
C20_Witness ==
    /\ pc = "apply"
    /\ events = <<"invert", "invert">>
    /\ Len(items) = 2
    /\ items[1].status = "ok" /\ items[1].new_path # NoPath
    /\ items[2].status = "rename"
    /\ aitems = <<items[2]>>

EventsOfKind(kind) == {k \in 1..Len(events) : events[k].ev = kind}

\* File i is the first of the pass to carry its DOI, with lookups enabled.
NewDoi(i) ==
    /\ items[i].doi # ""
    /\ ~opts.no_crossref
    /\ \A j \in 1..(i - 1) : items[j].doi # items[i].doi

\* C21: the rate-limit sleep happens once after each new lookup, failed ones
\* included, and never after a cache hit: sleeps and lookups are equally many
\* and each sleep comes right after its lookup, before the file's record is
\* reported and the next file is examined.
C21_SleepOncePerLookup ==
    /\ Cardinality(EventsOfKind("sleep")) = Cardinality(EventsOfKind("lookup"))
    /\ \A k \in EventsOfKind("lookup") :
          /\ k < Len(events)
          /\ events[k + 1] = Ev("sleep", events[k].idx, events[k].doi)
    /\ \A k \in EventsOfKind("sleep") :
          /\ k > 1 /\ events[k - 1].ev = "lookup"
          /\ \E m \in (k + 1)..Len(events) :
                events[m].ev = "item" /\ events[m].idx = events[k].idx
    /\ \A i \in ItemIdx :
          Cardinality({k \in EventsOf(i) : events[k].ev = "sleep"})
              = IF NewDoi(i) THEN 1 ELSE 0

\* Two files with the same DOI whose lookup failed: one lookup, one sleep,
\* both for the first file.
C21_Witness ==
    /\ pc = "previewed"
    /\ Len(items) = 2
    /\ items[1].doi = "10.1000/x" /\ items[2].doi = "10.1000/x"
    /\ ~opts.no_crossref
    /\ registry["10.1000/x"].raises
    /\ EventsOfKind("sleep") \subseteq EventsOf(1)
    /\ Cardinality(EventsOfKind("sleep")) = 1

\* The lookup made for the DOI of record i failed: it raised (network error,
\* malformed JSON, unexpected shape) or returned (None, None) on a non-200.
LookupFailed(i) ==
    /\ items[i].doi # ""
    /\ ~opts.no_crossref
    /\ \/ registry[items[i].doi].raises
       \/ registry[items[i].doi] = NoAnswer

\* C22: a failed lookup never leaves compute_preview: the file still gets its
\* record, built from the metadata title and the text guess, the DOI is cached
\* as (absent, absent) and the pass goes on to the remaining files.
C22_LookupFailureContained ==
    /\ pc \in {"idle", "preview", "previewed"}
    /\ Len(items) = idx - 1
    /\ (pc = "previewed" /\ ~cancelSeen) => Len(items) = Len(pdfs)
    /\ \A i \in ItemIdx :
          LookupFailed(i) =>
             /\ items[i].pdf = pdfs[i]
             /\ items[i].title = FileAt(pdfs[i]).title
             /\ items[i].year = TextGuess(items[i])
             /\ items[i].doi \in DOMAIN cache
             /\ cache[items[i].doi] = [title |-> <<>>, year |-> 0]

\* A file with a metadata title whose lookup failed, followed by another file
\* that was planned as well.
C22_Witness ==
    /\ pc = "previewed"
    /\ Len(items) = 2
    /\ LookupFailed(1) /\ registry[items[1].doi].raises
    /\ items[1].title = TitleMeta /\ items[1].year = 2019
    /\ items[1].status = "rename"
    /\ items[2].doi # items[1].doi

PathsOf(S) == {PathOf(f) : f \in S}

\* C23: in a real apply pass a file whose planned target is occupied when its
\* turn comes is moved to the first free "stem (i).ext", i = 2, 3, ...; no
\* file on disk at that moment is overwritten or lost, whatever the records.
C23_OccupiedTargetIsStepped ==
    [][(pc = "apply" /\ ~dry_run /\ aidx <= Len(aitems) /\ aidx' = aidx + 1)
          => LET item == aitems[aidx]
                 t == item.new_path
                 others == {f \in fs : PathOf(f) # item.pdf}
                 landed == PathsOf(fs') \ PathsOf(others)
             IN  /\ Cardinality(fs') = Cardinality(fs)
                 /\ others \subseteq fs'
                 /\ renamed' = renamed => fs' = fs
                 /\ renamed' = renamed + 1 =>
                       IF t \notin PathsOf(fs) THEN landed = {t}
                       ELSE \E i \in 2..(Cardinality(fs) + 1) :
                               /\ landed = {MkPath(t.dir, Numbered(t.name, i))}
                               /\ \A j \in 2..(i - 1) :
                                     MkPath(t.dir, Numbered(t.name, j)) \in PathsOf(fs)]_vars

\* a.pdf sent to "On Trees.pdf" while that name and "On Trees (2).pdf" are
\* taken: it lands on "On Trees (3).pdf" and all three files are there.
C23_Witness ==
    /\ pc = "applied"
    /\ ~dry_run
    /\ Len(aitems) = 1
    /\ aitems[1].pdf = MkPath(Folder, NameA)
    /\ aitems[1].new_path = MkPath(Folder, NameT)
    /\ renamed = 1
    /\ {MkPath(Folder, NameT), MkPath(Folder, NameT2), MkPath(Folder, Numbered(NameT, 3))}
          \subseteq PathsOf(fs)
    /\ MkPath(Folder, NameA) \notin PathsOf(fs)

\* C24: for each processed file i, progress_cb(i, total, file) comes before
\* the file is read or looked up, item_cb(i, total, record) comes exactly once
\* after them and before the progress callback of file i+1, the indices are
\* reported in increasing order and the record reported is items[i].
C24_CallbackOrder ==
    /\ \A k, m \in 1..Len(events) : k < m => events[k].idx <= events[m].idx
    /\ \A i \in ItemIdx :
          LET prog == {k \in EventsOf(i) : events[k].ev = "progress"}
              done == {k \in EventsOf(i) : events[k].ev = "item"}
          IN  /\ Cardinality(prog) = 1 /\ Cardinality(done) = 1
              /\ \A p \in prog, k \in EventsOf(i) : p <= k
              /\ \A d \in done, k \in EventsOf(i) : k <= d
              /\ \E k \in EventsOf(i) : events[k].ev = "extract"
              /\ \A p \in prog : events[p].arg = pdfs[i]
              /\ \A d \in done : events[d].arg = items[i]

\* Two files reported, the first one after a lookup.
C24_Witness ==
    /\ pc = "previewed"
    /\ Len(items) = 2
    /\ \E k \in EventsOf(1) : events[k].ev = "lookup"
    /\ events[1] = CbEv("progress", 1, pdfs[1])
    /\ events[Len(events)] = CbEv("item", 2, items[2])

\* C25: with maxlen >= 5 the final target name of every rename record, the
\* " (N)" added after clamping included, is at most maxlen characters long.
C25_TargetWithinMaxlen ==
    \A i \in ItemIdx :
        (items[i].status = "rename" /\ opts.maxlen >= 5)
            => Len(items[i].new_path.name) <= opts.maxlen

TerminalQueued == \E k \in 1..Len(gui.queue) : gui.queue[k].kind \in Terminals

\* _poll_queue is running, or an after() callback that runs it is pending.
PollerActive == gui.poll # "idle" \/ gui.timers > 0 \/ gui.auto

\* C26: under every interleaving of worker and _poll_queue the worker's
\* terminal message is dequeued and handled, so the GUI leaves the busy
\* state once the worker has finished.  Stated on finite runs: while the GUI
\* is busy and a worker runs or its terminal message waits in the queue,
\* _poll_queue is running or scheduled; otherwise every button but Cancel
\* is disabled and nothing is left to handle the message.
C26_TerminalMessageHandled ==
    (gui.busy /\ (gui.threads # <<>> \/ TerminalQueued)) => PollerActive

Stranded == gui.busy /\ gui.poll = "idle" /\ gui.timers = 0 /\ ~gui.auto

\* Once stranded, the GUI stays busy in every later state.
StrandedForever == [][Stranded => Stranded']_vars

\* A step of one of the three request handlers.
Request == ClickPreview \/ AutoPreview \/ ClickList \/ ClickRename

\* Threads still running their pass: not yet past their last put.
Running == {k \in 1..Len(gui.threads) : gui.threads[k].phase # "exit"}

\* C27: at most one worker is at work at any time, so a preview pass and
\* an apply pass never run concurrently, and a preview, list or rename
\* request made while self._worker is alive starts no thread and changes
\* neither the record list nor the cancellation flag.  A thread past its
\* last put, which only has to return, is not counted as at work.
C27_OnePassAtATime ==
    [][/\ Cardinality(Running') <= 1
       /\ (WorkerAlive /\ Request) =>
              (items' = items /\ cancel_event' = cancel_event /\ gui'.threads = gui.threads)]_vars

====
